---------------------------- MODULE Spec2Model ----------------------------
(***************************************************************************)
(* A model of packages/bundler-plugin-core/src/index.ts of the Sentry      *)
(* bundler plugins: the plugin factory (option checks, release name,       *)
(* plugin registration), the recoverable-error sink, the release           *)
(* pipeline the release-management plugin runs in writeBundle, the module  *)
(* transform hook of the release injection and the renderChunk hook of     *)
(* the debug-ID injection.                                                  *)
(*                                                                         *)
(* Text is a sequence of characters (one-character strings).  A few long   *)
(* literals of the source that no operation looks into are kept as one     *)
(* element: "node_modules", the name part of the virtual module id and     *)
(* the three constant parts of the debug-ID snippet.                       *)
(***************************************************************************)
EXTENDS Integers, Sequences, FiniteSets, TLC

VARIABLES
    \* ---- sentryUnpluginFactory and the release pipeline
    options,        \* the normalised options and the environment of one build
    pc,             \* position of the factory callback
    txStatus,       \* pluginExecutionTransaction's status
    handled,        \* the values options.errorHandler was called with, in order
    raised,         \* the value thrown to the host, or NoValue
    plugins,        \* the plugins pushed so far, in order
    rmArgs,         \* the arguments releaseManagementPlugin was given
    run,            \* state of the release-management writeBundle hook
    issued,         \* remote operations issued in the current pipeline run
    inflight,       \* the remote operation awaited, or NoStep
    failedSteps,    \* steps of the current run whose remote operation failed
    runs,           \* number of writeBundle runs started
    uploads,        \* number of debug-ID upload runs that reported an error
    sunk,           \* the values handleRecoverableError was called with, in order
    \* ---- createRollupDebugIdInjectionHooks
    chunk,          \* the chunk handed to renderChunk: [code, fileName]
    rendered,       \* renderChunk's return value, or NotCalled
    editPath,       \* which MagicString edit renderChunk made
    calls,          \* history of renderChunk calls: [code, fileName, result]
    \* ---- createRollupReleaseInjectionHooks
    module,         \* the module handed to transform: [code, id]
    transformed     \* transform's return value, or NotCalled

factoryVars == <<options, pc, txStatus, handled, raised, plugins, rmArgs,
                 run, issued, inflight, failedSteps, runs, uploads, sunk>>
chunkVars == <<chunk, rendered, editPath>>
orderVars == <<calls>>
transformVars == <<module, transformed>>
vars == <<factoryVars, chunkVars, orderVars, transformVars>>

(***************************************************************************)
(* Bounds of the model.                                                    *)
(***************************************************************************)
MaxPieces == 4          \* pieces a chunk's code is put together from
MaxIdPieces == 3        \* pieces a module id is put together from
MaxCalls == 2           \* renderChunk calls in one history
MaxRuns == 2            \* writeBundle invocations of one build
MaxUploads == 1         \* failures the debug-ID upload reports in one build

(***************************************************************************)
(* Text helpers.                                                           *)
(***************************************************************************)
RECURSIVE Flatten(_)
Flatten(pieces) ==
    IF pieces = <<>> THEN <<>> ELSE Head(pieces) \o Flatten(Tail(pieces))

SeqsUpTo(S, n) == UNION {[1..k -> S] : k \in 0..n}

\* String.prototype.endsWith
EndsWith(s, ending) ==
    /\ Len(s) >= Len(ending)
    /\ SubSeq(s, Len(s) - Len(ending) + 1, Len(s)) = ending

\* whether a match of the literal `part` starts somewhere in s
Contains(s, part) ==
    \E i \in 1..(Len(s) - Len(part) + 1) :
        SubSeq(s, i, i + Len(part) - 1) = part

\* what a hook returns: null, or a record [code, map]
NULL == [null |-> TRUE]
NotCalled == [called |-> FALSE]
IsResult(r) == "code" \in DOMAIN r

(***************************************************************************)
(* The regular expression of renderChunk,                                  *)
(*   /^(?:\s*|\/\*(?:.|\r|\n)*\*\/|\/\/.*[\n\r])*(?:"[^"]*";|'[^']*';)?/   *)
(* matched as ECMAScript's backtracking matcher does.  Everything after    *)
(* the outer loop is optional, so whatever an iteration consumes the rest  *)
(* of the pattern succeeds and no iteration is ever backtracked into: the  *)
(* loop takes, at each position, the first alternative that matches a      *)
(* non-empty text (an iteration that matches the empty text is rejected    *)
(* by RepeatMatcher, which makes `\s*` fail where there is no whitespace   *)
(* and the next alternative be tried), each alternative greedy.            *)
(***************************************************************************)
IsSpace(c) == c \in {" ", "\n", "\r", "\t"}          \* \s
IsDot(c) == c \notin {"\n", "\r"}                     \* .

\* \s* at i: the index after the longest run of whitespace from i
RECURSIVE SpaceRunEnd(_, _)
SpaceRunEnd(s, i) ==
    IF i <= Len(s) /\ IsSpace(s[i]) THEN SpaceRunEnd(s, i + 1) ELSE i

\* \/\*(?:.|\r|\n)*\*\/ at i: greedy, so up to the LAST */ of the text;
\* 0 when it does not match
BlockCommentEnd(s, i) ==
    LET closes == {j \in (i + 2)..(Len(s) - 1) : s[j] = "*" /\ s[j + 1] = "/"}
    IN  IF i + 1 <= Len(s) /\ s[i] = "/" /\ s[i + 1] = "*" /\ closes # {}
        THEN (CHOOSE j \in closes : \A k \in closes : k <= j) + 2
        ELSE 0

\* \/\/.*[\n\r] at i: to the end of the line, which must be there; else 0
LineCommentEnd(s, i) ==
    LET ends == {j \in (i + 2)..Len(s) : ~IsDot(s[j])}
    IN  IF i + 1 <= Len(s) /\ s[i] = "/" /\ s[i + 1] = "/" /\ ends # {}
        THEN (CHOOSE j \in ends : \A k \in ends : j <= k) + 1
        ELSE 0

\* (?:\s*|block comment|line comment)* at i
RECURSIVE PrologueLoopEnd(_, _)
PrologueLoopEnd(s, i) ==
    IF SpaceRunEnd(s, i) > i THEN PrologueLoopEnd(s, SpaceRunEnd(s, i))
    ELSE IF BlockCommentEnd(s, i) # 0 THEN PrologueLoopEnd(s, BlockCommentEnd(s, i))
    ELSE IF LineCommentEnd(s, i) # 0 THEN PrologueLoopEnd(s, LineCommentEnd(s, i))
    ELSE i

\* q[^q]*q; at i for the quote q: [^q]* runs to the next q, and a ; must follow
QuotedEnd(s, i, q) ==
    LET quotes == {j \in (i + 1)..Len(s) : s[j] = q}
        close == CHOOSE j \in quotes : \A k \in quotes : j <= k
    IN  IF i <= Len(s) /\ s[i] = q /\ quotes # {}
           /\ close + 1 <= Len(s) /\ s[close + 1] = ";"
        THEN close + 2
        ELSE 0

\* (?:"[^"]*";|'[^']*';)? at i
DirectiveEnd(s, i) ==
    IF QuotedEnd(s, i, "\"") # 0 THEN QuotedEnd(s, i, "\"")
    ELSE IF QuotedEnd(s, i, "'") # 0 THEN QuotedEnd(s, i, "'")
    ELSE i

\* code.match(commentUseStrictRegex)[0]: the pattern is anchored and can
\* match the empty text, so there is always a match and it starts at 0
commentUseStrictRegex(code) ==
    SubSeq(code, 1, DirectiveEnd(code, PrologueLoopEnd(code, 1)) - 1)


(***************************************************************************)
(* stringToUUID (./utils): a deterministic identifier of the content.      *)
(* It is a hash of the text rendered in hexadecimal; the model keeps a     *)
(* 16-bit polynomial hash and four digits.                                 *)
(***************************************************************************)
CharCode(c) ==
    CASE c = " " -> 32 [] c = "\n" -> 10 [] c = "\r" -> 13 [] c = "\t" -> 9
      [] c = "/" -> 47 [] c = "*" -> 42 [] c = "\"" -> 34 [] c = "'" -> 39
      [] c = ";" -> 59 [] c = "." -> 46 [] c = "(" -> 40 [] c = ")" -> 41
      [] c = "x" -> 120 [] c = "u" -> 117 [] c = "j" -> 106 [] c = "s" -> 115
      [] c = "m" -> 109 [] c = "c" -> 99 [] c = "f" -> 102 [] c = "o" -> 111
      [] c = "e" -> 101 [] c = "t" -> 116 [] c = "r" -> 114 [] c = "i" -> 105
      [] c = "n" -> 110 [] c = "h" -> 104 [] c = "l" -> 108
      [] OTHER -> 1

RECURSIVE HashFrom(_, _)
HashFrom(s, h) ==
    IF s = <<>> THEN h
    ELSE HashFrom(Tail(s), (h * 31 + CharCode(Head(s))) % 65536)

HexDigit(n) ==
    <<"0", "1", "2", "3", "4", "5", "6", "7",
      "8", "9", "a", "b", "c", "d", "e", "f">>[n + 1]

stringToUUID(str) ==
    LET h == HashFrom(str, 7)
    IN  <<HexDigit(h \div 4096), HexDigit((h \div 256) % 16),
          HexDigit((h \div 16) % 16), HexDigit(h % 16)>>

(***************************************************************************)
(* getDebugIdSnippet: three constant parts around two copies of the id.    *)
(***************************************************************************)
SnippetHead ==
    ";!function(){try{var e=\"undefined\"!=typeof window?window:\"undefined\"!=typeof global?global:\"undefined\"!=typeof self?self:{},n=(new Error).stack;n&&(e._sentryDebugIds=e._sentryDebugIds||{},e._sentryDebugIds[n]=\""
SnippetMid == "\",e._sentryDebugIdIdentifier=\"sentry-dbid-"
SnippetTail == "\")}catch(e){}}();"

getDebugIdSnippet(debugId) ==
    <<SnippetHead>> \o debugId \o <<SnippetMid>> \o debugId \o <<SnippetTail>>

(***************************************************************************)
(* MagicString, as far as renderChunk and transform use it: the edited     *)
(* text of a buffer that gets one edit.                                    *)
(***************************************************************************)
\* ms.replace(regex, replacer) with a regex that is not global: the first
\* match, here the text `match` at offset 0, is overwritten by the replacer's
\* result; toString() is that followed by the rest of the original
msReplace(original, match, replacement) ==
    replacement \o SubSeq(original, Len(match) + 1, Len(original))

\* ms.prepend(text); ms.toString()
msPrepend(original, text) == text \o original

\* ms.append(text); ms.toString()
msAppend(original, text) == original \o text

(***************************************************************************)
(* createRollupDebugIdInjectionHooks().renderChunk                          *)
(***************************************************************************)
ScriptEndings == {<<".", "j", "s">>, <<".", "m", "j", "s">>, <<".", "c", "j", "s">>}

IsScriptFile(fileName) == \E ending \in ScriptEndings : EndsWith(fileName, ending)

\* a debug ID that takes the file name into the hash
chunkDebugId_withFileName(code, c) == stringToUUID(c.fileName \o code)

\* the debug ID of a chunk: stringToUUID(code)
chunkDebugId(code, c) == stringToUUID(code)

\* a replacer that puts the snippet in front of the match
replacer_snippetFirst(match, codeToInject) == codeToInject \o match

\* the replacer given to ms.replace: (match) => `${match}${codeToInject}`
replacer(match, codeToInject) == match \o codeToInject

\* which edit is made: the test code.match(commentUseStrictRegex)?.[0]
renderChunkPath(code) ==
    IF commentUseStrictRegex(code) # <<>> THEN "replace" ELSE "prepend"

renderChunk(code, c) ==
    IF IsScriptFile(c.fileName)
    THEN LET debugId == chunkDebugId(code, c)
             codeToInject == getDebugIdSnippet(debugId)
             match == commentUseStrictRegex(code)
         IN  [code |-> IF renderChunkPath(code) = "replace"
                       THEN msReplace(code, match, replacer(match, codeToInject))
                       ELSE msPrepend(code, codeToInject),
              map |-> [file |-> c.fileName]]
    ELSE NULL

(***************************************************************************)
(* The chunks renderChunk is tried on: every text put together from at     *)
(* most MaxPieces pieces (five single characters, a block comment, a line  *)
(* comment, directives in both quotes, a directive whose text holds the    *)
(* two characters that close a block comment), and the two chunks the      *)
(* specification names.                                                    *)
(***************************************************************************)
CodePieces ==
    { <<"\n">>, <<"/">>, <<"*">>, <<"\"">>, <<"x">>,
      <<"/", "*", "x", "*", "/">>,
      <<"/", "/", "x", "\n">>,
      <<"\"", "u", "\"", ";">>,
      <<"'", "u", "'", ";">>,
      <<"\"", "*", "/", "\"", ";">> }

\* "use strict";\n// comment\nfoo();
UseStrictChunk ==
    <<"\"", "u", "s", "e", " ", "s", "t", "r", "i", "c", "t", "\"", ";", "\n",
      "/", "/", " ", "c", "o", "m", "m", "e", "n", "t", "\n",
      "f", "o", "o", "(", ")", ";">>

\* foo();
FooChunk == <<"f", "o", "o", "(", ")", ";">>

Codes ==
    {Flatten(p) : p \in SeqsUpTo(CodePieces, MaxPieces)} \cup {UseStrictChunk, FooChunk}

FileNames ==
    { <<"x", ".", "j", "s">>, <<"x", ".", "m", "j", "s">>,
      <<"x", ".", "c", "j", "s">>, <<"x", ".", "c", "s", "s">> }

IdleChunk == [code |-> <<>>, fileName |-> <<>>]
IdleModule == [code |-> <<>>, id |-> <<>>]

Chunks == [code : Codes, fileName : FileNames]

\* the bundler hands a finished chunk to the hook
RenderChunk ==
    /\ rendered = NotCalled
    /\ rendered' = renderChunk(chunk.code, chunk)
    /\ editPath' = IF IsScriptFile(chunk.fileName)
                   THEN renderChunkPath(chunk.code) ELSE "none"
    /\ UNCHANGED <<chunk, factoryVars, orderVars, transformVars>>


(***************************************************************************)
(* createRollupReleaseInjectionHooks(injectionCode).transform              *)
(***************************************************************************)
virtualReleaseInjectionFileId == <<"\\0", "sentry-release-injection-file">>

\* a pattern that knows the forward slash only
isNodeModulesPath_forwardOnly(id) == Contains(id, <<"/", "node_modules", "/">>)

\* id.match(/\\node_modules\\|\/node_modules\//)
isNodeModulesPath(id) ==
    \/ Contains(id, <<"\\", "node_modules", "\\">>)
    \/ Contains(id, <<"/", "node_modules", "/">>)

SourceEndings ==
    { <<".", "j", "s">>, <<".", "t", "s">>, <<".", "j", "s", "x">>,
      <<".", "t", "s", "x">>, <<".", "m", "j", "s">> }

\* `\n\n;import "${virtualReleaseInjectionFileId}";`
ImportStatement ==
    <<"\n", "\n", ";", "import \"">> \o virtualReleaseInjectionFileId \o <<"\";">>

transform(code, id) ==
    IF id = virtualReleaseInjectionFileId THEN NULL
    ELSE IF isNodeModulesPath(id) THEN NULL
    ELSE IF ~(\E ending \in SourceEndings : EndsWith(id, ending)) THEN NULL
    ELSE [code |-> msAppend(code, ImportStatement), map |-> "map"]

\* The module ids transform is tried on: put together from at most
\* MaxIdPieces pieces.
IdPieces ==
    { <<"/">>, <<"x">>,
      <<"/", "node_modules", "/">>, <<"\\", "node_modules", "\\">>,
      <<"/", "node_modules", "\\">>, <<"node_modules", "/">>,
      <<".", "j", "s">>, <<".", "t", "s">>, <<".", "j", "s", "x">>,
      <<".", "t", "s", "x">>, <<".", "m", "j", "s">>, <<".", "c", "j", "s">>,
      <<".", "c", "s", "s">>,
      virtualReleaseInjectionFileId }

ModuleIds == {Flatten(p) : p \in SeqsUpTo(IdPieces, MaxIdPieces)}

ModuleCodes == {<<>>, <<"x", ";">>, <<"\"", "u", "\"", ";", "\n", "x">>}

Modules == [code : ModuleCodes, id : ModuleIds]

\* the bundler hands a module to the hook
Transform ==
    /\ transformed = NotCalled
    /\ transformed' = transform(module.code, module.id)
    /\ UNCHANGED <<module, factoryVars, chunkVars, orderVars>>

(***************************************************************************)
(* sentryUnpluginFactory: values                                           *)
(***************************************************************************)
UNDEFINED == "undefined"

\* JavaScript's truthiness of the values the options take here: undefined
\* and the empty string are falsy, a non-empty string, an array (also the
\* empty one) and an object are truthy
Truthy(v) == v # UNDEFINED /\ v # ""

\* a ?? b
Coalesce(a, b) == IF a = UNDEFINED THEN b ELSE a

\* Thrown values: an Error with its message, or something that is no Error.
Err(message) == [isError |-> TRUE, message |-> message]
NonError(text) == [isError |-> FALSE, message |-> text]
NoValue == [isError |-> FALSE, message |-> "<nothing thrown>"]

OptionsError == Err("Options were not set correctly. See output above for more details.")
ReleaseNameError == Err("Unable to determine a release name. Please set the release option.")
UnknownError == Err("An unknown error occured")

AllOptions ==
    [ errorHandler : BOOLEAN,                 \* options.errorHandler is set
      valid : BOOLEAN,                        \* what validateOptions returns
      release : {UNDEFINED, "", "1.0.0"},     \* options.release
      determinedRelease : {UNDEFINED, "abc123"},  \* determineReleaseName()
      injectRelease : BOOLEAN,
      assets : {UNDEFINED, "", "[]", "dist/**"},  \* options.sourcemaps?.assets
      watchMode : BOOLEAN,                    \* unpluginMetaContext.watchMode
      cleanArtifacts : BOOLEAN,
      uploadSourceMaps : BOOLEAN,
      finalize : BOOLEAN,
      setCommits : {UNDEFINED, "{auto:true}"},
      deploy : {UNDEFINED, "{env:production}"} ]

IdleOptions ==
    [ errorHandler |-> FALSE, valid |-> TRUE, release |-> UNDEFINED,
      determinedRelease |-> UNDEFINED, injectRelease |-> FALSE,
      assets |-> UNDEFINED, watchMode |-> FALSE, cleanArtifacts |-> FALSE,
      uploadSourceMaps |-> FALSE, finalize |-> FALSE, setCommits |-> UNDEFINED,
      deploy |-> UNDEFINED ]

(***************************************************************************)
(* handleRecoverableError: from the transaction status, the values the     *)
(* error handler has seen and the value thrown, those after the call.      *)
(***************************************************************************)
SinkNow == [txStatus |-> txStatus, handled |-> handled, raised |-> raised]

\* a sink that hands the handler whatever it got, Error or not
handleRecoverableError_passesAnything(sink, unknownError) ==
    IF options.errorHandler
    THEN [ txStatus |-> "internal_error",
           handled |-> Append(sink.handled, unknownError),
           raised |-> sink.raised ]
    ELSE [ txStatus |-> "internal_error",
           handled |-> sink.handled,
           raised |-> unknownError ]

\* a sink that replaces every value by the uniform error
handleRecoverableError_losesError(sink, unknownError) ==
    IF options.errorHandler
    THEN [ txStatus |-> "internal_error",
           handled |-> Append(sink.handled, UnknownError),
           raised |-> sink.raised ]
    ELSE [ txStatus |-> "internal_error",
           handled |-> sink.handled,
           raised |-> UnknownError ]

\* a sink that calls the handler and throws all the same
handleRecoverableError_rethrows(sink, unknownError) ==
    [ txStatus |-> "internal_error",
      handled |-> IF options.errorHandler
                  THEN Append(sink.handled,
                              IF unknownError.isError THEN unknownError
                              ELSE UnknownError)
                  ELSE sink.handled,
      raised |-> unknownError ]

\* a sink that throws nothing when no handler is set
handleRecoverableError_swallows(sink, unknownError) ==
    [ txStatus |-> "internal_error",
      handled |-> IF options.errorHandler
                  THEN Append(sink.handled,
                              IF unknownError.isError THEN unknownError
                              ELSE UnknownError)
                  ELSE sink.handled,
      raised |-> sink.raised ]

handleRecoverableError(sink, unknownError) ==
    IF options.errorHandler
    THEN [ txStatus |-> "internal_error",
           handled |-> Append(sink.handled,
                              IF unknownError.isError THEN unknownError
                              ELSE UnknownError),
           raised |-> sink.raised ]
    ELSE [ txStatus |-> "internal_error",
           handled |-> sink.handled,
           raised |-> unknownError ]

SinkBecomes(sink) ==
    /\ txStatus' = sink.txStatus
    /\ handled' = sink.handled
    /\ raised' = sink.raised

(***************************************************************************)
(* sentryUnpluginFactory: the callback given to createUnplugin, in three   *)
(* consecutive parts.                                                      *)
(***************************************************************************)
\* options.release ?? determineReleaseName()
releaseName == Coalesce(options.release, options.determinedRelease)

\* normalizeUserOptions ... if (!validateOptions(options, logger)) { ... }
Validate ==
    /\ pc = "start"
    /\ IF ~options.valid
       THEN /\ SinkBecomes(handleRecoverableError(SinkNow, OptionsError))
            /\ sunk' = Append(sunk, OptionsError)
            /\ pc' = IF raised' # NoValue THEN "thrown" ELSE "validated"
       ELSE /\ pc' = "validated"
            /\ UNCHANGED <<txStatus, handled, raised, sunk>>
    /\ UNCHANGED <<options, plugins, rmArgs, run, issued, inflight,
                   failedSteps, runs, uploads>>
    /\ UNCHANGED <<chunkVars, orderVars, transformVars>>

\* getSentryCli ... if (!releaseName) { ... } ... (the node_modules warning)
ResolveRelease ==
    /\ pc = "validated"
    /\ IF ~Truthy(releaseName)
       THEN /\ SinkBecomes(handleRecoverableError(SinkNow, ReleaseNameError))
            /\ sunk' = Append(sunk, ReleaseNameError)
            /\ pc' = IF raised' # NoValue THEN "thrown" ELSE "resolved"
       ELSE /\ pc' = "resolved"
            /\ UNCHANGED <<txStatus, handled, raised, sunk>>
    /\ UNCHANGED <<options, plugins, rmArgs, run, issued, inflight,
                   failedSteps, runs, uploads>>
    /\ UNCHANGED <<chunkVars, orderVars, transformVars>>

\* the conditions under which each plugin is pushed
registersReleaseInjection == options.injectRelease /\ Truthy(releaseName)
registersDebugIdInjection == Truthy(options.assets)
registersReleaseManagement == Truthy(releaseName)
registersDebugIdUpload == ~options.watchMode /\ options.assets # UNDEFINED

\* arguments with the clean and the upload flag taken from each other's option
ReleaseManagementArgs_flagsSwapped ==
    [ releaseName |-> releaseName,
      shouldCleanArtifacts |-> options.uploadSourceMaps,
      shouldUploadSourceMaps |-> options.cleanArtifacts,
      shouldFinalizeRelease |-> options.finalize,
      setCommitsOption |-> options.setCommits,
      deployOptions |-> options.deploy ]

\* the arguments of releaseManagementPlugin({...})
ReleaseManagementArgs ==
    [ releaseName |-> releaseName,
      shouldCleanArtifacts |-> options.cleanArtifacts,
      shouldUploadSourceMaps |-> options.uploadSourceMaps,
      shouldFinalizeRelease |-> options.finalize,
      setCommitsOption |-> options.setCommits,
      deployOptions |-> options.deploy ]

NoArgs ==
    [ releaseName |-> UNDEFINED, shouldCleanArtifacts |-> FALSE,
      shouldUploadSourceMaps |-> FALSE, shouldFinalizeRelease |-> FALSE,
      setCommitsOption |-> UNDEFINED, deployOptions |-> UNDEFINED ]

When(cond, name) == IF cond THEN <<name>> ELSE <<>>

\* const plugins = []; plugins.push(...) ...; return plugins
RegisterPlugins ==
    /\ pc = "resolved"
    /\ plugins' = <<"telemetry">>
                  \o When(registersReleaseInjection, "release-injection")
                  \o When(registersDebugIdInjection, "debug-id-injection")
                  \o When(registersReleaseManagement, "release-management")
                  \o When(registersDebugIdUpload, "debug-id-upload")
    /\ rmArgs' = IF registersReleaseManagement THEN ReleaseManagementArgs ELSE NoArgs
    /\ pc' = "returned"
    /\ UNCHANGED <<options, txStatus, handled, raised, sunk, run, issued,
                   inflight, failedSteps, runs, uploads>>
    /\ UNCHANGED <<chunkVars, orderVars, transformVars>>

Registered(name) == \E i \in 1..Len(plugins) : plugins[i] = name


(***************************************************************************)
(* The release pipeline of releaseManagementPlugin's writeBundle hook.     *)
(* The plugin's own file is ./plugins/release-management; the order of the *)
(* steps is the one the comment above sentryUnpluginFactory lists, the     *)
(* rest follows the specification: each step is one awaited remote call,   *)
(* a failed Create ends the run, a failed later step is reported and the   *)
(* run goes on, every failure goes to handleRecoverableError.              *)
(***************************************************************************)
PipelineOrder == <<"create", "clean", "upload", "commits", "finalize", "deploy">>

StepIndex(step) == CHOOSE i \in 1..Len(PipelineOrder) : PipelineOrder[i] = step

StepEnabled(step) ==
    CASE step = "create" -> TRUE
      [] step = "clean" -> rmArgs.shouldCleanArtifacts
      [] step = "upload" -> rmArgs.shouldUploadSourceMaps
      [] step = "commits" -> Truthy(rmArgs.setCommitsOption)
      [] step = "finalize" -> rmArgs.shouldFinalizeRelease
      [] step = "deploy" -> Truthy(rmArgs.deployOptions)

\* a remote call's structured failure, which carries the step that failed
StepFailure(step) == Err(step)

LastIssuedIndex == IF issued = <<>> THEN 0 ELSE StepIndex(issued[Len(issued)])

\* the steps still to come, by index
StepsAhead == {i \in (LastIssuedIndex + 1)..Len(PipelineOrder) : StepEnabled(PipelineOrder[i])}

\* go on to the next enabled step and issue its remote call, or finish
Advance ==
    IF StepsAhead # {}
    THEN LET i == CHOOSE k \in StepsAhead : \A m \in StepsAhead : k <= m
         IN  /\ issued' = Append(issued, PipelineOrder[i])
             /\ inflight' = {PipelineOrder[i]}
             /\ run' = "running"
    ELSE /\ issued' = issued
         /\ inflight' = {}
         /\ run' = "done"

\* the bundler calls the hook: the run starts and issues Create
WriteBundle ==
    /\ pc = "returned"
    /\ Registered("release-management")
    /\ run \in {"idle", "done", "aborted"}
    /\ raised = NoValue
    /\ runs < MaxRuns
    /\ runs' = runs + 1
    /\ failedSteps' = {}
    /\ issued' = <<"create">>
    /\ inflight' = {"create"}
    /\ run' = "running"
    /\ UNCHANGED <<options, pc, txStatus, handled, raised, plugins, rmArgs,
                   uploads, sunk>>
    /\ UNCHANGED <<chunkVars, orderVars, transformVars>>

\* the awaited remote call succeeds
StepSucceeds ==
    /\ run = "running"
    /\ raised = NoValue
    /\ inflight # {}
    /\ Advance
    /\ UNCHANGED <<options, pc, txStatus, handled, raised, plugins, rmArgs,
                   failedSteps, runs, uploads, sunk>>
    /\ UNCHANGED <<chunkVars, orderVars, transformVars>>

\* the awaited remote call fails
StepFails ==
    /\ run = "running"
    /\ raised = NoValue
    /\ \E step \in inflight :
          /\ SinkBecomes(handleRecoverableError(SinkNow, StepFailure(step)))
          /\ sunk' = Append(sunk, StepFailure(step))
          /\ failedSteps' = failedSteps \cup {step}
          /\ IF raised' # NoValue
             THEN /\ run' = "rejected"
                  /\ inflight' = {}
                  /\ issued' = issued
             ELSE IF step = "create"
             THEN /\ run' = "aborted"
                  /\ inflight' = {}
                  /\ issued' = issued
             ELSE Advance
    /\ UNCHANGED <<options, pc, plugins, rmArgs, runs, uploads>>
    /\ UNCHANGED <<chunkVars, orderVars, transformVars>>

(***************************************************************************)
(* The debug-ID upload plugin was given handleRecoverableError too and     *)
(* hands it whatever its upload throws, an Error or not.                   *)
(***************************************************************************)
ThrownValues == {Err("debug ID upload failed"), NonError("rejected with a string")}

DebugIdUploadFails ==
    /\ pc = "returned"
    /\ Registered("debug-id-upload")
    /\ raised = NoValue
    /\ uploads < MaxUploads
    /\ uploads' = uploads + 1
    /\ \E thrown \in ThrownValues :
          /\ SinkBecomes(handleRecoverableError(SinkNow, thrown))
          /\ sunk' = Append(sunk, thrown)
    /\ UNCHANGED <<options, pc, plugins, rmArgs, run, issued, inflight,
                   failedSteps, runs>>
    /\ UNCHANGED <<chunkVars, orderVars, transformVars>>

(***************************************************************************)
(* renderChunk called on several chunks, in any order.                     *)
(***************************************************************************)
OrderCodes ==
    { UseStrictChunk, FooChunk, <<" ">>,
      <<"/", "*", "x", "*", "/", "\n", "x", ";">> }

RenderChunkCall ==
    /\ Len(calls) < MaxCalls
    /\ \E c \in [code : OrderCodes, fileName : FileNames] :
          calls' = Append(calls, [code |-> c.code, fileName |-> c.fileName,
                                  result |-> renderChunk(c.code, c)])
    /\ UNCHANGED <<factoryVars, chunkVars, transformVars>>

(***************************************************************************)
(* Specifications.                                                         *)
(***************************************************************************)
FactoryIdle ==
    /\ pc = "start"
    /\ txStatus = "unset"
    /\ handled = <<>>
    /\ raised = NoValue
    /\ plugins = <<>>
    /\ rmArgs = NoArgs
    /\ run = "idle"
    /\ issued = <<>>
    /\ inflight = {}
    /\ failedSteps = {}
    /\ runs = 0
    /\ uploads = 0
    /\ sunk = <<>>

ChunkIdle == chunk = IdleChunk /\ rendered = NotCalled /\ editPath = "none"
OrderIdle == calls = <<>>
TransformIdle == module = IdleModule /\ transformed = NotCalled

\* The options the release pipeline does not read, left at one value.
PipelineOptions ==
    {o \in AllOptions : ~o.injectRelease /\ o.assets = UNDEFINED /\ ~o.watchMode}

\* one build: the factory callback, then the release pipeline in writeBundle
Init ==
    /\ options \in PipelineOptions
    /\ FactoryIdle /\ ChunkIdle /\ OrderIdle /\ TransformIdle

Next ==
    \/ Validate
    \/ ResolveRelease
    \/ RegisterPlugins
    \/ WriteBundle
    \/ StepSucceeds
    \/ StepFails

Spec == Init /\ [][Next]_vars

\* one build under every option: the factory callback, then the failures
\* the debug-ID upload reports
InitFactory ==
    /\ options \in AllOptions
    /\ FactoryIdle /\ ChunkIdle /\ OrderIdle /\ TransformIdle

NextFactory ==
    \/ Validate
    \/ ResolveRelease
    \/ RegisterPlugins
    \/ DebugIdUploadFails

SpecFactory == InitFactory /\ [][NextFactory]_vars

\* renderChunk on one chunk
InitRenderChunk ==
    /\ chunk \in Chunks
    /\ rendered = NotCalled /\ editPath = "none"
    /\ options = IdleOptions
    /\ FactoryIdle /\ OrderIdle /\ TransformIdle

NextRenderChunk == RenderChunk

SpecRenderChunk == InitRenderChunk /\ [][NextRenderChunk]_vars

\* renderChunk on several chunks
InitRenderOrder ==
    /\ options = IdleOptions
    /\ FactoryIdle /\ ChunkIdle /\ OrderIdle /\ TransformIdle

NextRenderOrder == RenderChunkCall

SpecRenderOrder == InitRenderOrder /\ [][NextRenderOrder]_vars

\* transform on one module
InitTransform ==
    /\ module \in Modules
    /\ transformed = NotCalled
    /\ options = IdleOptions
    /\ FactoryIdle /\ ChunkIdle /\ OrderIdle

NextTransform == Transform

SpecTransform == InitTransform /\ [][NextTransform]_vars


(***************************************************************************)
(* What the claims speak of, said without the matcher: the lexical shapes  *)
(* of a chunk's beginning.                                                 *)
(***************************************************************************)
\* a block comment: from /* to the first */ after it
IsBlockComment(s) ==
    /\ Len(s) >= 4
    /\ s[1] = "/" /\ s[2] = "*" /\ s[Len(s) - 1] = "*" /\ s[Len(s)] = "/"
    /\ \A j \in 3..(Len(s) - 2) : ~(s[j] = "*" /\ s[j + 1] = "/")

\* a text of the shape the pattern's block-comment alternative accepts:
\* from /* to some */
IsBlockCommentShaped(s) ==
    /\ Len(s) >= 4
    /\ s[1] = "/" /\ s[2] = "*" /\ s[Len(s) - 1] = "*" /\ s[Len(s)] = "/"

\* a line comment with the line break that ends it
IsLineComment(s) ==
    /\ Len(s) >= 3
    /\ s[1] = "/" /\ s[2] = "/" /\ s[Len(s)] \in {"\n", "\r"}
    /\ \A j \in 3..(Len(s) - 1) : s[j] \notin {"\n", "\r"}

\* a directive: a string literal in one kind of quotes, then a semicolon
IsDirectiveStatement(s) ==
    /\ Len(s) >= 3
    /\ s[1] \in {"\"", "'"} /\ s[Len(s) - 1] = s[1] /\ s[Len(s)] = ";"
    /\ \A j \in 2..(Len(s) - 2) : s[j] # s[1] /\ s[j] \notin {"\n", "\r"}

\* a text of the shape the pattern's directive alternative accepts
IsDirectiveShaped(s) ==
    /\ Len(s) >= 3
    /\ s[1] \in {"\"", "'"} /\ s[Len(s) - 1] = s[1] /\ s[Len(s)] = ";"
    /\ \A j \in 2..(Len(s) - 2) : s[j] # s[1]

\* any mix of whitespace, block comments and line comments
RECURSIVE IsCommentMix(_)
IsCommentMix(s) ==
    \/ s = <<>>
    \/ /\ s # <<>>
       /\ \/ IsSpace(s[1]) /\ IsCommentMix(Tail(s))
          \/ \E k \in 3..Len(s) :
                /\ IsBlockComment(SubSeq(s, 1, k)) \/ IsLineComment(SubSeq(s, 1, k))
                /\ IsCommentMix(SubSeq(s, k + 1, Len(s)))

\* the same with the pattern's block-comment shape
RECURSIVE IsLoopShaped(_)
IsLoopShaped(s) ==
    \/ s = <<>>
    \/ /\ s # <<>>
       /\ \/ IsSpace(s[1]) /\ IsLoopShaped(Tail(s))
          \/ \E k \in 3..Len(s) :
                /\ IsBlockCommentShaped(SubSeq(s, 1, k)) \/ IsLineComment(SubSeq(s, 1, k))
                /\ IsLoopShaped(SubSeq(s, k + 1, Len(s)))

\* whitespace, comments, then at most one directive
IsPrologueShaped(s) ==
    \E k \in 0..Len(s) :
        /\ k = Len(s) \/ IsDirectiveShaped(SubSeq(s, k + 1, Len(s)))
        /\ IsLoopShaped(SubSeq(s, 1, k))

\* where the snippet starts in a text
SnippetStarts(text) == {i \in 1..Len(text) : text[i] = SnippetHead}

\* the debug ID a snippet in the text carries
EmbeddedDebugId(text) ==
    LET i == CHOOSE k \in SnippetStarts(text) : TRUE
    IN  SubSeq(text, i + 1, i + 4)

\* "use strict";
UseStrictDirective == SubSeq(UseStrictChunk, 1, 13)

(***************************************************************************)
(* C5: for a chunk with a script file name whose code begins with any mix  *)
(* of whitespace, block comments and line comments followed by a directive *)
(* statement, the returned code keeps everything up to the end of that     *)
(* directive as it was and has the snippet only after it; for              *)
(* "use strict";\n// comment\nfoo(); the snippet comes right after the     *)
(* directive.                                                              *)
(***************************************************************************)
C5_SnippetAfterDirective ==
    IsResult(rendered) =>
        /\ \A k1 \in 0..Len(chunk.code), k2 \in 0..Len(chunk.code) :
              ( /\ k1 < k2
                /\ IsDirectiveStatement(SubSeq(chunk.code, k1 + 1, k2))
                /\ IsCommentMix(SubSeq(chunk.code, 1, k1)) )
              => /\ \A i \in SnippetStarts(rendered.code) : i > k2
                 /\ SubSeq(rendered.code, 1, k2) = SubSeq(chunk.code, 1, k2)
        /\ chunk.code = UseStrictChunk
              => rendered.code =
                    UseStrictDirective
                    \o getDebugIdSnippet(stringToUUID(UseStrictChunk))
                    \o SubSeq(UseStrictChunk, 14, Len(UseStrictChunk))

HasNodeModulesSegment(id) ==
    \E i \in 2..(Len(id) - 1) :
        /\ id[i] = "node_modules"
        /\ id[i - 1] \in {"/", "\\"}
        /\ id[i + 1] = id[i - 1]

HasSourceExtension(id) ==
    \E ending \in { <<".", "j", "s">>, <<".", "t", "s">>, <<".", "j", "s", "x">>,
                    <<".", "t", "s", "x">>, <<".", "m", "j", "s">> } :
        /\ Len(id) >= Len(ending)
        /\ \A k \in 1..Len(ending) : id[Len(id) - Len(ending) + k] = ending[k]

C8_ContentDeterminesInjection ==
    /\ \A i \in 1..Len(calls) :
          IsResult(calls[i].result) =>
             EmbeddedDebugId(calls[i].result.code) = stringToUUID(calls[i].code)
    /\ \A i \in 1..Len(calls), j \in 1..Len(calls) :
          ( /\ calls[i].code = calls[j].code
            /\ IsResult(calls[i].result)
            /\ IsResult(calls[j].result) )
          => calls[i].result.code = calls[j].result.code

\* the same content rendered under two script file names
C8_Witness ==
    /\ Len(calls) = 2
    /\ calls[1].code = calls[2].code
    /\ calls[1].fileName # calls[2].fileName
    /\ IsResult(calls[1].result)
    /\ IsResult(calls[2].result)

\* the option that enables a step, and the place of a step in the order
OptionEnables(step) ==
    CASE step = "create" -> TRUE
      [] step = "clean" -> options.cleanArtifacts
      [] step = "upload" -> options.uploadSourceMaps
      [] step = "commits" -> options.setCommits # UNDEFINED
      [] step = "finalize" -> options.finalize
      [] step = "deploy" -> options.deploy # UNDEFINED

Rank(step) ==
    CASE step = "create" -> 1 [] step = "clean" -> 2 [] step = "upload" -> 3
      [] step = "commits" -> 4 [] step = "finalize" -> 5 [] step = "deploy" -> 6

(***************************************************************************)
(* C1: in every pipeline run the remote operations issued are, in this     *)
(* order and each at most once, Create, Clean, Upload, Commits, Finalize,  *)
(* Deploy; Create is first; a later step is issued only if its option      *)
(* enables it; at most one operation is awaited and it is the one issued   *)
(* last; a run needs a resolved release name.  With cleanArtifacts off,    *)
(* uploadSourceMaps and finalize on, no setCommits, no deploy and no       *)
(* failure the finished run issued exactly Create, Upload, Finalize.       *)
(***************************************************************************)
C1_PipelineOrder ==
    /\ \A i \in 1..Len(issued) : OptionEnables(issued[i])
    /\ \A i \in 1..Len(issued), j \in 1..Len(issued) :
          i < j => Rank(issued[i]) < Rank(issued[j])
    /\ run # "idle" =>
          /\ issued # <<>> /\ issued[1] = "create"
          /\ Truthy(releaseName)
    /\ run = "idle" => issued = <<>>
    /\ Cardinality(inflight) <= 1
    /\ inflight # {} => run = "running" /\ inflight = {issued[Len(issued)]}
    /\ ( /\ run = "done" /\ failedSteps = {}
         /\ ~options.cleanArtifacts /\ options.uploadSourceMaps /\ options.finalize
         /\ options.setCommits = UNDEFINED /\ options.deploy = UNDEFINED )
       => issued = <<"create", "upload", "finalize">>

C1_Witness ==
    /\ run = "done" /\ failedSteps = {}
    /\ ~options.cleanArtifacts /\ options.uploadSourceMaps /\ options.finalize
    /\ options.setCommits = UNDEFINED /\ options.deploy = UNDEFINED
    /\ issued = <<"create", "upload", "finalize">>

(***************************************************************************)
(* C2: whatever handleRecoverableError is called with: with an error       *)
(* handler set, the handler has been called once per call of the sink, in  *)
(* order, with the value itself if it is an Error and with the uniform     *)
(* "unknown error" otherwise, and nothing was thrown, so no caller was     *)
(* cut short; with none set, the handler was never called and the value    *)
(* was thrown to the host.                                                 *)
(***************************************************************************)
C2_ErrorSink ==
    IF options.errorHandler
    THEN /\ Len(handled) = Len(sunk)
         /\ \A i \in 1..Len(sunk) :
               /\ handled[i].isError
               /\ sunk[i].isError => handled[i] = sunk[i]
               /\ ~sunk[i].isError => handled[i] = Err("An unknown error occured")
         /\ raised = NoValue
         /\ pc # "thrown" /\ run # "rejected"
    ELSE /\ handled = <<>>
         /\ Len(sunk) <= 1
         /\ sunk = <<>> => raised = NoValue
         /\ sunk # <<>> => raised = sunk[1]

\* the handler got the uniform error for a value that is no Error
C2_Witness ==
    /\ options.errorHandler
    /\ \E i \in 1..Len(sunk) :
          ~sunk[i].isError /\ handled[i] = Err("An unknown error occured")

(***************************************************************************)
(* C3: once Create has failed in a run, Create stays the only operation    *)
(* issued in that run, with or without an error handler, and the failure   *)
(* went to the sink: the handler got it, or it was thrown to the host.     *)
(***************************************************************************)
C3_CreateFailureEndsRun ==
    "create" \in failedSteps =>
        /\ issued = <<"create">>
        /\ inflight = {}
        /\ run \in {"aborted", "rejected"}
        /\ txStatus = "internal_error"
        /\ \E i \in 1..Len(sunk) : sunk[i] = Err("create")
        /\ IF options.errorHandler
           THEN (\E i \in 1..Len(handled) : handled[i] = Err("create"))
                /\ run = "aborted"
           ELSE raised = Err("create") /\ run = "rejected"

\* Create failed although later steps are enabled, and a handler is set
C3_Witness ==
    /\ "create" \in failedSteps
    /\ options.errorHandler
    /\ options.uploadSourceMaps /\ options.finalize
    /\ run = "aborted"

(***************************************************************************)
(* C4: with an error handler set, a failed Upload does not end the run:    *)
(* the run goes on, the handler gets the Upload failure, and the finished  *)
(* run has issued after Upload every later step that is enabled, Finalize  *)
(* among them when finalize is on.                                         *)
(***************************************************************************)
C4_UploadFailureGoesOn ==
    (options.errorHandler /\ "upload" \in failedSteps) =>
        /\ run \in {"running", "done"}
        /\ \E i \in 1..Len(handled) : handled[i] = Err("upload")
        /\ run = "running" => inflight # {}
        /\ run = "done" =>
              \A step \in {"commits", "finalize", "deploy"} :
                  OptionEnables(step) =>
                      \E i \in 1..Len(issued), j \in 1..Len(issued) :
                          i < j /\ issued[i] = "upload" /\ issued[j] = step

C4_Witness ==
    /\ options.errorHandler /\ options.finalize
    /\ "upload" \in failedSteps
    /\ run = "done"
    /\ \E i \in 1..Len(issued) : issued[i] = "finalize"

\* the pre-flight failures of a build, in the order of the checks
PreflightFailures ==
    (IF ~options.valid
     THEN <<Err("Options were not set correctly. See output above for more details.")>>
     ELSE <<>>)
    \o (IF (IF options.release # UNDEFINED THEN options.release
            ELSE options.determinedRelease) \in {UNDEFINED, ""}
        THEN <<Err("Unable to determine a release name. Please set the release option.")>>
        ELSE <<>>)

(***************************************************************************)
(* C9: a failed option validation and an unresolvable release name each    *)
(* go to the sink once, the validation first, before any plugin is         *)
(* registered.  With an error handler the callback runs to its end, the    *)
(* handler having the failures; without one the first failure is thrown,   *)
(* no plugin is registered and no pipeline step is ever issued.            *)
(***************************************************************************)
C9_PreflightFailures ==
    /\ pc = "start" => sunk = <<>>
    /\ pc = "validated" => sunk = SubSeq(PreflightFailures, 1, IF options.valid THEN 0 ELSE 1)
    /\ pc # "returned" =>
          plugins = <<>> /\ rmArgs = NoArgs /\ runs = 0 /\ uploads = 0 /\ issued = <<>>
    /\ pc \in {"resolved", "returned"} =>
          /\ Len(sunk) >= Len(PreflightFailures)
          /\ SubSeq(sunk, 1, Len(PreflightFailures)) = PreflightFailures
    /\ options.errorHandler =>
          /\ pc # "thrown"
          /\ pc \in {"resolved", "returned"} =>
                SubSeq(handled, 1, Len(PreflightFailures)) = PreflightFailures
          /\ pc = "returned" => plugins # <<>> /\ plugins[1] = "telemetry"
    /\ (~options.errorHandler /\ PreflightFailures # <<>>) =>
          /\ pc \in {"start", "validated", "thrown"}
          /\ pc = "validated" => options.valid
          /\ pc = "thrown" =>
                /\ raised = PreflightFailures[1]
                /\ sunk = <<PreflightFailures[1]>>
                /\ handled = <<>>
    /\ (runs = 0 /\ uploads = 0) => Len(sunk) <= Len(PreflightFailures)

\* both pre-flight failures reported to the handler, and the plugins returned
C9_Witness ==
    /\ options.errorHandler
    /\ pc = "returned"
    /\ Len(PreflightFailures) = 2
    /\ handled = PreflightFailures
    /\ plugins # <<>>

(***************************************************************************)
(* C10: whenever the debug-ID upload plugin is registered, the debug-ID    *)
(* injection plugin is registered too.                                     *)
(***************************************************************************)
C10_UploadImpliesInjection ==
    Registered("debug-id-upload") => Registered("debug-id-injection")

=============================================================================
